---- MODULE Spec2Model ----
(***************************************************************************)
(* Model of deirokay's statement base class (BaseStatement), of the        *)
(* validation run that drives statements, and of the Airflow operator      *)
(* (DeirokayOperator).                                                     *)
(*                                                                         *)
(* Python dicts are modelled as sequences of <<key, value>> pairs with     *)
(* distinct keys, in insertion order (the order a dict iterates in).       *)
(* Python objects that are shared by reference (the option mapping handed  *)
(* to a statement) live in a heap and are referred to by their id.         *)
(***************************************************************************)
EXTENDS Integers, Sequences, FiniteSets, TLC

VARIABLES
    heap,      \* the caller's dict objects: heap[d] is the content of dict d
    stmts,     \* the statement instances: [cls, options], options a dict id
    last,      \* the latest operation on a statement class or instance
    evals,     \* the evaluations so far: [stmt, df, ret]
    run,       \* the validation run
    operator,  \* <<>> or <<the DeirokayOperator instance>>
    executed   \* the latest DeirokayOperator.execute

vars == <<heap, stmts, last, evals, run, operator, executed>>

stmtVars == <<heap, stmts, last, evals>>
runVars == <<run>>
opVars == <<operator, executed>>

----------------------------------------------------------------------------
(* Bounds *)

MaxKeys == 2
MaxStmts == 1
MaxEvals == 2
MaxEntries == 2

----------------------------------------------------------------------------
(* Python dicts and lists *)

ListToSet(l) == {l[i] : i \in DOMAIN l}

InList(x, l) == \E i \in DOMAIN l : l[i] = x

DictKeyList(d) == [i \in DOMAIN d |-> d[i][1]]

DictKeys(d) == {d[i][1] : i \in DOMAIN d}

DictGet(d, k) == d[CHOOSE i \in DOMAIN d : d[i][1] = k][2]

\* d[k] = v: an existing key keeps its position, a new key goes last
DictSetItem(d, k, v) ==
    IF k \in DictKeys(d)
    THEN [i \in DOMAIN d |-> IF d[i][1] = k THEN <<k, v>> ELSE d[i]]
    ELSE Append(d, <<k, v>>)

\* del d[k]
DictDelItem(d, k) == SelectSeq(d, LAMBDA kv : kv[1] # k)

----------------------------------------------------------------------------
(* The statement classes.  BaseStatement is the class of the source; the   *)
(* other two are subclasses of the kind the base class is written for:     *)
(* each overrides the class attributes and report/result, and inherits     *)
(* __init__, _validate_options and __call__ unchanged.                     *)

Classes == {"BaseStatement", "ColumnStatement", "TableStatement"}

\* the dict objects the caller owns and hands to constructors
DictIds == {"options"}

\* the keys and values the caller puts in a mapping
OptionNames == {"type", "severity", "rule", "bogus"}

OptionValues == {1}

\* slices of a table: the columns and the number of rows of each
DataFrames ==
    { [columns |-> <<"a">>, rows |-> 0],
      [columns |-> <<"a">>, rows |-> 1],
      [columns |-> <<"a", "b">>, rows |-> 1] }

\* class attribute expected_parameters
expected_parameters(cls) ==
    CASE cls = "BaseStatement" -> <<"type", "severity", "location">>
      [] cls = "ColumnStatement" -> <<"rule">>
      [] cls = "TableStatement" -> <<"type", "severity", "location", "rule">>

\* class attribute table_only
table_only(cls) ==
    CASE cls = "BaseStatement" -> FALSE
      [] cls = "ColumnStatement" -> FALSE
      [] cls = "TableStatement" -> TRUE

\* BaseStatement.report returns {}; the subclasses override it
report(cls, df) ==
    CASE cls = "BaseStatement" -> <<>>
      [] cls = "ColumnStatement" -> << <<"rows", df.rows>> >>
      [] cls = "TableStatement" -> << <<"columns", Len(df.columns)>> >>

\* BaseStatement.result returns True; the subclasses override it
result(cls, rep) ==
    CASE cls = "BaseStatement" -> TRUE
      [] cls = "ColumnStatement" -> DictGet(rep, "rows") >= 1
      [] cls = "TableStatement" -> DictGet(rep, "columns") <= 1

\* the options a statement type cannot do without (the base class declares
\* none and has no attribute for them)
required_parameters(cls) ==
    CASE cls = "BaseStatement" -> {}
      [] cls = "ColumnStatement" -> {"rule"}
      [] cls = "TableStatement" -> {"rule"}

\* whether the class overrides the static method profile
overrides_profile(cls) == cls = "TableStatement"

----------------------------------------------------------------------------
(* BaseStatement *)

\* a variant that checks the keys against the class's own list only
unexpected_parameters_own_only(cls, options) ==
    SelectSeq(DictKeyList(options),
              LAMBDA option : ~InList(option, expected_parameters(cls)))

\* _validate_options: the list comprehension over the mapping's keys
unexpected_parameters(cls, options) ==
    SelectSeq(DictKeyList(options),
              LAMBDA option :
                  ~InList(option, expected_parameters(cls)
                                  \o expected_parameters("BaseStatement")))

\* _validate_options: <<>> when it returns, <<the ValueError>> when it raises
validate_options(cls, options) ==
    LET unexpected == unexpected_parameters(cls, options)
    IN  IF unexpected # <<>>
        THEN << [exc |-> "ValueError",
                 cls |-> cls,
                 invalid |-> unexpected,
                 valid |-> expected_parameters(cls)] >>
        ELSE <<>>

\* a variant that returns the report itself with the verdict added to it
call_statement_flat(cls, df) ==
    LET internal_report == report(cls, df)
        res == result(cls, internal_report)
        final_report == internal_report \o << <<"result", res>> >>
    IN  [trace |-> << [method |-> "report", arg |-> <<df>>,
                       ret |-> <<internal_report>>],
                      [method |-> "result", arg |-> <<internal_report>>,
                       ret |-> <<res>>] >>,
         ret |-> final_report]

\* a variant that computes the report a second time for the result step
call_statement_twice(cls, df) ==
    LET internal_report == report(cls, df)
        again == report(cls, df)
        res == result(cls, again)
        final_report == << <<"detail", internal_report>>, <<"result", res>> >>
    IN  [trace |-> << [method |-> "report", arg |-> <<df>>,
                       ret |-> <<internal_report>>],
                      [method |-> "report", arg |-> <<df>>,
                       ret |-> <<again>>],
                      [method |-> "result", arg |-> <<again>>,
                       ret |-> <<res>>] >>,
         ret |-> final_report]

\* __call__: the calls it makes, in order, and the value it returns
call_statement(cls, df) ==
    LET internal_report == report(cls, df)
        res == result(cls, internal_report)
        final_report == << <<"detail", internal_report>>, <<"result", res>> >>
    IN  [trace |-> << [method |-> "report", arg |-> <<df>>,
                       ret |-> <<internal_report>>],
                      [method |-> "result", arg |-> <<internal_report>>,
                       ret |-> <<res>>] >>,
         ret |-> final_report]

\* a variant whose base implementation returns an empty statement dict
profile_empty(cls, df) ==
    IF overrides_profile(cls)
    THEN [exc |-> "", ret |-> << << <<"type", 1>> >> >>]
    ELSE [exc |-> "", ret |-> << <<>> >>]

\* profile: raises NotImplementedError unless the class overrides it
profile(cls, df) ==
    IF overrides_profile(cls)
    THEN [exc |-> "", ret |-> << << <<"type", 1>> >> >>]
    ELSE [exc |-> "NotImplementedError", ret |-> <<>>]

----------------------------------------------------------------------------
(* The caller's handling of the dict objects it owns *)

\* d[k] = v
CallerSetItem(d, k, v) ==
    /\ k \in DictKeys(heap[d]) \/ Len(heap[d]) < MaxKeys
    /\ heap' = [heap EXCEPT ![d] = DictSetItem(@, k, v)]
    /\ heap' # heap
    /\ last' = [op |-> "caller"]
    /\ UNCHANGED <<stmts, evals>>

\* del d[k]
CallerDelItem(d, k) ==
    /\ k \in DictKeys(heap[d])
    /\ heap' = [heap EXCEPT ![d] = DictDelItem(@, k)]
    /\ last' = [op |-> "caller"]
    /\ UNCHANGED <<stmts, evals>>

----------------------------------------------------------------------------
(* The operations of a statement *)

\* cls(options): __init__ validates the mapping and then keeps a reference
\* to it
Construct(cls, d) ==
    /\ LET err == validate_options(cls, heap[d])
       IN  /\ last' = [op |-> "construct", cls |-> cls, options |-> d,
                       error |-> err]
           /\ IF err # <<>>
              THEN UNCHANGED stmts
              ELSE /\ Len(stmts) < MaxStmts
                   /\ stmts' = Append(stmts, [cls |-> cls, options |-> d])
    /\ UNCHANGED <<heap, evals>>

\* statement(df)
Call(s, df) ==
    /\ s \in DOMAIN stmts
    /\ LET c == call_statement(stmts[s].cls, df)
           e == [stmt |-> s, df |-> df, ret |-> c.ret]
       IN  /\ last' = [op |-> "call", stmt |-> s, df |-> df,
                       trace |-> c.trace, ret |-> c.ret]
           /\ e \in evals \/ Cardinality(evals) < MaxEvals
           /\ evals' = evals \cup {e}
    /\ UNCHANGED <<heap, stmts>>

\* cls.profile(df)
Profile(cls, df) ==
    /\ last' = [op |-> "profile", cls |-> cls, df |-> df,
                outcome |-> profile(cls, df)]
    /\ UNCHANGED <<heap, stmts, evals>>

----------------------------------------------------------------------------

\* the validation run before validate is called
Idle ==
    [phase |-> "idle", mode |-> "abort", table |-> <<>>, configs |-> <<>>,
     state |-> <<>>, slots |-> <<>>, finished |-> <<>>, error |-> <<>>,
     report |-> <<>>, verdict |-> <<>>]

Init ==
    /\ heap = [d \in DictIds |-> <<>>]
    /\ stmts = <<>>
    /\ last = [op |-> "none"]
    /\ evals = {}
    /\ run = Idle
    /\ operator = <<>>
    /\ executed = <<>>

Next ==
    \/ \E d \in DictIds, k \in OptionNames, v \in OptionValues :
           CallerSetItem(d, k, v) /\ UNCHANGED <<runVars, opVars>>
    \/ \E d \in DictIds, k \in OptionNames :
           CallerDelItem(d, k) /\ UNCHANGED <<runVars, opVars>>
    \/ \E cls \in Classes, d \in DictIds :
           Construct(cls, d) /\ UNCHANGED <<runVars, opVars>>
    \/ \E s \in 1..MaxStmts, df \in DataFrames :
           Call(s, df) /\ UNCHANGED <<runVars, opVars>>
    \/ \E cls \in Classes, df \in DataFrames :
           Profile(cls, df) /\ UNCHANGED <<runVars, opVars>>

Spec == Init /\ [][Next]_vars

----------------------------------------------------------------------------
(* Properties of statements *)

BaseNames == {"type", "severity", "location"}

\* the keys construction is to accept for a statement type
Accepted(cls) == ListToSet(expected_parameters(cls)) \cup BaseNames

\* the mapping a construction was given (Construct leaves the heap alone)
Given == heap[last.options]

Unrecognized == DictKeys(Given) \ Accepted(last.cls)

\* C1: construction fails with an error if and only if some key of the
\* mapping is outside the union of the type's expected parameter names and
\* the base names; the keys the error names are exactly the unrecognized
\* keys of the mapping.
C1_FailsIffUnrecognized ==
    last.op = "construct" =>
        /\ (last.error # <<>>) <=> (Unrecognized # {})
        /\ last.error # <<>> =>
               /\ last.error[1].exc = "ValueError"
               /\ ListToSet(last.error[1].invalid) = Unrecognized

C1_Witness ==
    /\ last.op = "construct"
    /\ last.cls = "ColumnStatement"
    /\ DictKeys(Given) = {"type", "bogus"}
    /\ last.error # <<>>
    /\ ListToSet(last.error[1].invalid) = {"bogus"}

\* C2: an evaluation returns a structure with exactly the two keys detail
\* and result; detail is the report the statement computed for the slice
\* and result is the verdict derived from that report.
C2_DetailAndResult ==
    last.op = "call" =>
        /\ Len(last.ret) = 2
        /\ DictKeys(last.ret) = {"detail", "result"}
        /\ \E i, j \in DOMAIN last.trace :
               /\ last.trace[i].method = "report"
               /\ last.trace[i].arg = <<last.df>>
               /\ last.trace[j].method = "result"
               /\ last.trace[j].arg = last.trace[i].ret
               /\ <<DictGet(last.ret, "detail")>> = last.trace[i].ret
               /\ <<DictGet(last.ret, "result")>> = last.trace[j].ret

C2_Witness ==
    /\ last.op = "call"
    /\ stmts[last.stmt].cls = "ColumnStatement"
    /\ last.df.rows = 0
    /\ last.ret = << <<"detail", << <<"rows", 0>> >> >>, <<"result", FALSE>> >>

\* C3: in an evaluation the report step runs exactly once, on the slice,
\* and before the result step; the result step runs exactly once and is
\* given only that report; two evaluations of the same statement with equal
\* detail have equal result.
C3_ReportThenResult ==
    /\ last.op = "call" =>
           /\ Len(last.trace) = 2
           /\ last.trace[1].method = "report"
           /\ last.trace[1].arg = <<last.df>>
           /\ last.trace[2].method = "result"
           /\ last.trace[2].arg = last.trace[1].ret
    /\ \A e1, e2 \in evals :
           (e1.stmt = e2.stmt
              /\ DictGet(e1.ret, "detail") = DictGet(e2.ret, "detail"))
               => DictGet(e1.ret, "result") = DictGet(e2.ret, "result")

C3_Witness ==
    /\ last.op = "call"
    /\ \E e1, e2 \in evals :
           /\ e1.stmt = e2.stmt
           /\ e1.df # e2.df
           /\ DictGet(e1.ret, "detail") = DictGet(e2.ret, "detail")
           /\ DictGet(e1.ret, "detail") # <<>>

\* C4: every key of the option mapping held by an existing statement
\* instance is in the union of its type's expected parameter names and the
\* base names, also after the caller changes the mapping it passed.
C4_HeldOptionsRecognized ==
    \A s \in DOMAIN stmts :
        DictKeys(heap[stmts[s].options]) \subseteq Accepted(stmts[s].cls)

\* C5: when construction fails, the accepted set the error names is the
\* full set of keys construction accepts for the type: its own expected
\* parameter names together with the base names.
C5_ErrorNamesAcceptedSet ==
    (last.op = "construct" /\ last.error # <<>>) =>
        ListToSet(last.error[1].valid) = Accepted(last.cls)

\* C6: construction from a mapping that lacks an option the type requires
\* fails, and no statement that lacks a required option is evaluated.
C6_MissingRequiredFails ==
    /\ (last.op = "construct"
          /\ ~(required_parameters(last.cls) \subseteq DictKeys(Given)))
           => last.error # <<>>
    /\ last.op = "call" =>
           required_parameters(stmts[last.stmt].cls)
               \subseteq DictKeys(heap[stmts[last.stmt].options])

\* C9: profile on a class that does not override it raises
\* NotImplementedError for every sample and returns no option mapping.
C9_ProfileNotImplemented ==
    (last.op = "profile" /\ ~overrides_profile(last.cls)) =>
        /\ last.outcome.exc = "NotImplementedError"
        /\ last.outcome.ret = <<>>

C9_Witness ==
    /\ last.op = "profile"
    /\ last.cls = "BaseStatement"
    /\ last.df.rows = 1
    /\ last.outcome.exc = "NotImplementedError"

----------------------------------------------------------------------------
(* The validation run: validate(table, configs).  Each entry of configs is *)
(* a mapping {type, location, ...options}.  Entries are worked on by       *)
(* concurrent workers: an entry is started (resolved, checked, its         *)
(* statement constructed, its slice selected) and later finished (its      *)
(* statement evaluated), in any order across entries.                      *)

Identifiers == {"column_statement", "table_statement", "unknown_statement"}

\* the statement registry
registered(identifier) ==
    identifier \in {"column_statement", "table_statement"}

resolve(identifier) ==
    CASE identifier = "column_statement" -> "ColumnStatement"
      [] identifier = "table_statement" -> "TableStatement"

Locations == {<<"table">>, <<"columns", <<"a">> >>, <<"columns", <<"zz">> >>}

Tables ==
    { [columns |-> <<"a">>, rows |-> 0],
      [columns |-> <<"a", "b">>, rows |-> 1] }

Modes == {"abort", "continue"}

Entries ==
    { << <<"type", t>>, <<"location", l>> >> \o x :
          t \in Identifiers, l \in Locations,
          x \in {<<>>, << <<"bogus", 1>> >>} }

ConfigLists ==
    UNION { [1..n -> Entries] : n \in 1..MaxEntries }

\* a variant that only refuses a column subset for a table-only class
scope_mismatch_table_only(cls, location) ==
    location[1] = "columns" /\ table_only(cls)

\* whether the requested scope conflicts with the class's declaration
scope_mismatch(cls, location) ==
    \/ location[1] = "table" /\ ~table_only(cls)
    \/ location[1] = "columns" /\ table_only(cls)

columns_found(table, location) ==
    location[1] = "columns" =>
        \A i \in DOMAIN location[2] : InList(location[2][i], table.columns)

select_slice(table, location) ==
    IF location[1] = "table"
    THEN table
    ELSE [columns |-> location[2], rows |-> table.rows]

\* what starting an entry finds: "" or the error that stops the entry
entry_error(table, entry) ==
    LET identifier == DictGet(entry, "type")
        location == DictGet(entry, "location")
    IN  IF ~registered(identifier) THEN "UnknownStatementType"
        ELSE IF scope_mismatch(resolve(identifier), location)
        THEN "ScopeMismatch"
        ELSE IF validate_options(resolve(identifier), entry) # <<>>
        THEN "ConfigurationError"
        ELSE IF ~columns_found(table, location) THEN "ColumnNotFound"
        ELSE ""

\* the report of an entry, tagged with the entry's metadata
tagged(entry, detail, res) ==
    [type |-> DictGet(entry, "type"), location |-> DictGet(entry, "location"),
     detail |-> detail, result |-> res]

\* a variant that lists the reports in the order the entries finished
assemble_as_finished(r) ==
    [k \in 1..Len(r.finished) |-> r.slots[r.finished[k]][1]]

\* the aggregated report: the entries' reports in configuration order
assemble(r) ==
    [i \in 1..Len(r.configs) |-> r.slots[i][1]]

RECURSIVE all_pass(_)
all_pass(reports) ==
    IF reports = <<>> THEN TRUE
    ELSE Head(reports).result /\ all_pass(Tail(reports))

Submit(table, configs, mode) ==
    /\ run.phase = "idle"
    /\ run' = [Idle EXCEPT !.phase = "running", !.mode = mode,
                           !.table = table, !.configs = configs,
                           !.state = [i \in DOMAIN configs |-> "pending"],
                           !.slots = [i \in DOMAIN configs |-> <<>>]]

StartEntry(i) ==
    /\ run.phase = "running"
    /\ i \in DOMAIN run.configs
    /\ run.state[i] = "pending"
    /\ LET err == entry_error(run.table, run.configs[i])
       IN  IF err = ""
           THEN run' = [run EXCEPT !.state[i] = "ready"]
           ELSE IF run.mode = "abort"
           THEN run' = [run EXCEPT !.phase = "aborted", !.state[i] = "failed",
                                   !.error = << [entry |-> i, kind |-> err] >>]
           ELSE run' = [run EXCEPT
                            !.state[i] = "failed",
                            !.finished = Append(@, i),
                            !.slots[i] = << tagged(run.configs[i],
                                                   << <<"error", err>> >>,
                                                   FALSE) >>]

FinishEntry(i) ==
    /\ run.phase = "running"
    /\ i \in DOMAIN run.configs
    /\ run.state[i] = "ready"
    /\ LET entry == run.configs[i]
           df == select_slice(run.table, DictGet(entry, "location"))
           c == call_statement(resolve(DictGet(entry, "type")), df)
       IN  run' = [run EXCEPT
                       !.state[i] = "done",
                       !.finished = Append(@, i),
                       !.slots[i] = << tagged(entry, DictGet(c.ret, "detail"),
                                              DictGet(c.ret, "result")) >>]

Complete ==
    /\ run.phase = "running"
    /\ \A i \in DOMAIN run.configs : run.state[i] \in {"done", "failed"}
    /\ run' = [run EXCEPT !.phase = "completed",
                          !.report = assemble(run),
                          !.verdict = <<all_pass(assemble(run))>>]

NextValidate ==
    \/ /\ run.phase = "idle"
       /\ \E t \in Tables, c \in ConfigLists, m \in Modes :
              Submit(t, c, m) /\ UNCHANGED <<stmtVars, opVars>>
    \/ \E i \in 1..MaxEntries : StartEntry(i) /\ UNCHANGED <<stmtVars, opVars>>
    \/ \E i \in 1..MaxEntries : FinishEntry(i) /\ UNCHANGED <<stmtVars, opVars>>
    \/ Complete /\ UNCHANGED <<stmtVars, opVars>>

SpecValidate == Init /\ [][NextValidate]_vars

\* the entries whose requested scope conflicts with their type's declaration
Conflicting(i) ==
    /\ registered(DictGet(run.configs[i], "type"))
    /\ LET cls == resolve(DictGet(run.configs[i], "type"))
           loc == DictGet(run.configs[i], "location")
       IN  \/ loc = <<"table">> /\ table_only(cls) = FALSE
           \/ loc # <<"table">> /\ table_only(cls) = TRUE

\* C7: an entry whose scope conflicts with its type's table_only
\* declaration fails with a scope-mismatch error, and its statement is
\* never evaluated.
C7_ScopeMismatchBeforeEvaluation ==
    \A i \in DOMAIN run.configs :
        Conflicting(i) =>
            /\ run.state[i] \in {"pending", "failed"}
            /\ run.state[i] = "failed" =>
                   \/ run.error = << [entry |-> i, kind |-> "ScopeMismatch"] >>
                   \/ /\ run.slots[i] # <<>>
                      /\ run.slots[i][1].detail
                             = << <<"error", "ScopeMismatch">> >>

C7_Witness ==
    /\ run.phase = "aborted"
    /\ Len(run.configs) = 2
    /\ run.state[1] = "done"
    /\ DictGet(run.configs[2], "type") = "column_statement"
    /\ DictGet(run.configs[2], "location") = <<"table">>
    /\ run.error = << [entry |-> 2, kind |-> "ScopeMismatch"] >>

\* what the report of a configuration entry is
ReportOf(table, entry) ==
    LET err == entry_error(table, entry)
        loc == DictGet(entry, "location")
    IN  IF err # ""
        THEN [type |-> DictGet(entry, "type"), location |-> loc,
              detail |-> << <<"error", err>> >>, result |-> FALSE]
        ELSE LET cls == resolve(DictGet(entry, "type"))
                 rep == report(cls, select_slice(table, loc))
             IN  [type |-> DictGet(entry, "type"), location |-> loc,
                  detail |-> rep, result |-> result(cls, rep)]

\* C8: a run that completes holds one report per configuration, the i-th
\* being the report of the i-th configuration, whatever order the entries
\* finished in.
C8_OneReportPerEntryInOrder ==
    run.phase = "completed" =>
        /\ Len(run.report) = Len(run.configs)
        /\ \A i \in DOMAIN run.configs :
               run.report[i] = ReportOf(run.table, run.configs[i])

C8_Witness ==
    /\ run.phase = "completed"
    /\ run.finished = <<2, 1>>
    /\ run.configs[1] # run.configs[2]
    /\ run.state = <<"done", "done">>
    /\ run.report[1].type # run.report[2].type

----------------------------------------------------------------------------
(* DeirokayOperator.  deirokay.data_reader and deirokay.validate are       *)
(* called by execute and are not part of it: each either raises or         *)
(* returns, and what it does is the environment's choice.                  *)

Paths == {"data.csv", "other.csv"}

OptionsDocs == {"options.json", "options2.json"}

AssertionsDocs == {"assertions.json", "assertions2.json"}

SaveJsons == {"None", "report.json"}

\* what deirokay.data_reader may do
ReaderOutcomes ==
    {[exc |-> "ReaderError", ret |-> <<>>]}
        \cup {[exc |-> "", ret |-> <<df>>] : df \in Tables}

\* what deirokay.validate may do
ValidateOutcomes ==
    {[exc |-> "ValidationError", ret |-> <<>>]}
        \cup {[exc |-> "", ret |-> <<[result |-> b]>>] : b \in BOOLEAN}

\* __init__: the three attributes it sets (save_json is accepted and dropped)
new_operator(path_to_file, options_json, assertions_json, save_json) ==
    [path_to_file |-> path_to_file,
     deirokay_options_json |-> options_json,
     deirokay_assertions_json |-> assertions_json]

\* a variant that hands validate the typing-options document
execute_wrong_document(self, read, validated) ==
    LET reader_call == [fn |-> "data_reader", args |-> <<self.path_to_file>>,
                        kwargs |-> << <<"options_json",
                                        self.deirokay_options_json>> >>,
                        out |-> read]
    IN  IF read.exc # ""
        THEN [self |-> self, calls |-> <<reader_call>>, exc |-> read.exc,
              ret |-> <<>>]
        ELSE LET df == read.ret[1]
                 validate_call ==
                     [fn |-> "validate", args |-> <<df>>,
                      kwargs |-> << <<"against_json",
                                      self.deirokay_options_json>> >>,
                      out |-> validated]
             IN  IF validated.exc # ""
                 THEN [self |-> self, calls |-> <<reader_call, validate_call>>,
                       exc |-> validated.exc, ret |-> <<>>]
                 ELSE [self |-> self, calls |-> <<reader_call, validate_call>>,
                       exc |-> "", ret |-> <<self.path_to_file>>]

\* execute: the calls it makes, in order, and how it ends, given what
\* data_reader and validate do
execute(self, read, validated) ==
    LET reader_call == [fn |-> "data_reader", args |-> <<self.path_to_file>>,
                        kwargs |-> << <<"options_json",
                                        self.deirokay_options_json>> >>,
                        out |-> read]
    IN  IF read.exc # ""
        THEN [self |-> self, calls |-> <<reader_call>>, exc |-> read.exc,
              ret |-> <<>>]
        ELSE LET df == read.ret[1]
                 validate_call ==
                     [fn |-> "validate", args |-> <<df>>,
                      kwargs |-> << <<"against_json",
                                      self.deirokay_assertions_json>> >>,
                      out |-> validated]
             IN  IF validated.exc # ""
                 THEN [self |-> self, calls |-> <<reader_call, validate_call>>,
                       exc |-> validated.exc, ret |-> <<>>]
                 ELSE [self |-> self, calls |-> <<reader_call, validate_call>>,
                       exc |-> "", ret |-> <<self.path_to_file>>]

\* DeirokayOperator(path_to_file, ..., save_json=...)
NewOperator(path, options, assertions, save) ==
    /\ operator' = << new_operator(path, options, assertions, save) >>
    /\ UNCHANGED executed

\* operator.execute(context)
Execute(read, validated) ==
    /\ operator # <<>>
    /\ executed' = << execute(operator[1], read, validated) >>
    /\ UNCHANGED operator

NextOperator ==
    \/ \E p \in Paths, o \in OptionsDocs, a \in AssertionsDocs,
          sj \in SaveJsons :
           NewOperator(p, o, a, sj) /\ UNCHANGED <<stmtVars, runVars>>
    \/ \E r \in ReaderOutcomes, v \in ValidateOutcomes :
           Execute(r, v) /\ UNCHANGED <<stmtVars, runVars>>

SpecOperator == Init /\ [][NextOperator]_vars

\* C10: one execute calls the reader once on path_to_file with the
\* typing-options document, then validation once on the table the reader
\* returned with the assertions document; validation is not started when
\* the reader fails; execute returns path_to_file exactly when both calls
\* return normally, whatever validation returns; save_json is never used.
C10_ExecuteReadsThenValidates ==
    executed # <<>> =>
        LET e == executed[1]
            self == e.self
            n == Len(e.calls)
        IN  /\ DOMAIN self = {"path_to_file", "deirokay_options_json",
                              "deirokay_assertions_json"}
            /\ n \in {1, 2}
            /\ e.calls[1].fn = "data_reader"
            /\ e.calls[1].args = <<self.path_to_file>>
            /\ e.calls[1].kwargs
                   = << <<"options_json", self.deirokay_options_json>> >>
            /\ (n = 1) <=> (e.calls[1].out.exc # "")
            /\ n = 2 =>
                   /\ e.calls[2].fn = "validate"
                   /\ e.calls[2].args = e.calls[1].out.ret
                   /\ e.calls[2].kwargs
                          = << <<"against_json",
                                 self.deirokay_assertions_json>> >>
            /\ (e.ret # <<>>)
                   <=> (\A k \in 1..n : e.calls[k].out.exc = "") /\ n = 2
            /\ e.ret # <<>> => e.ret = <<self.path_to_file>> /\ e.exc = ""
            /\ e.ret = <<>> => e.exc = e.calls[n].out.exc /\ e.exc # ""

C10_Witness ==
    /\ executed # <<>>
    /\ Len(executed[1].calls) = 2
    /\ executed[1].calls[2].out.ret = <<[result |-> FALSE]>>
    /\ executed[1].ret = <<"data.csv">>

====
